---- MODULE Spec2Model ----
(***************************************************************************)
(* A model of the network bandwidth monitor (network_monitor.py) and of    *)
(* its metrics exporters (metrics_exporter.py).                            *)
(*                                                                         *)
(* The specifications share the variables below:                           *)
(*   SpecInflux   one InfluxDBExporter object under arbitrary calls of     *)
(*                export_metrics / flush / close, with a clock and a       *)
(*                backend whose writes succeed or fail;                    *)
(*   SpecFanout   one MetricsExporter object: registration of exporters,   *)
(*                export_metrics and close;                                *)
(*   SpecCalc     one NetworkMonitor object whose calculate_bandwidth is   *)
(*                called with arbitrary counter snapshots;                 *)
(*   SpecMonitor  the program: __main__ configures the exporters, runs     *)
(*                NetworkMonitor.monitor step by step and tears down;      *)
(*   SpecAlert    check_thresholds called tick after tick;                 *)
(*   SpecConns    get_active_connections on arbitrary socket tables;       *)
(*   SpecProm     one PrometheusExporter object under arbitrary calls of   *)
(*                export_metrics / start_server.                           *)
(*                                                                         *)
(* Rates are Python floats in the source; they are modelled as exact       *)
(* fractions [n, d] in lowest terms with d > 0.                            *)
(***************************************************************************)
EXTENDS Integers, Sequences, FiniteSets, TLC

VARIABLES
    now,                 \* time.time(), in seconds
    \* ---- InfluxDBExporter object (SpecInflux)
    influx,              \* the exporter's fields
    written,             \* batches the backend accepted, in order
    call,                \* the last call on the exporter and what it did
    nextId,              \* identity of the next Point object created
    \* ---- MetricsExporter object (SpecFanout, SpecMonitor)
    PROMETHEUS_AVAILABLE,
    INFLUXDB_AVAILABLE,
    exporters,           \* self.exporters
    calls,               \* the sink calls made by the last MetricsExporter call
    ret,                 \* what the last MetricsExporter call returned / raised
    \* ---- NetworkMonitor object (SpecCalc, SpecMonitor)
    interval,            \* self.interval
    thresholds,          \* self.thresholds
    prev_net_io,         \* self.prev_net_io
    calc,                \* the last calculate_bandwidth call and its result
    \* ---- the program: __main__ and NetworkMonitor.monitor (SpecMonitor)
    METRICS_EXPORT_AVAILABLE,
    args,                \* the parsed command line: prometheus, influxdb, duration
    pc,                  \* where the program is
    outcome,             \* how the monitoring loop ended
    metrics_exporter,    \* TRUE when __main__ built a MetricsExporter
    start_time,          \* monitor(): start_time
    current_net_io,      \* monitor(): the snapshot read in this tick
    speeds,              \* monitor(): upload_speed, download_speed
    active_conns,        \* the module global active_conns
    alerts,              \* the alerts trigger_alert raised in the last check
    tick_exports,        \* MetricsExporter.export_metrics calls in this tick
    close_calls,         \* MetricsExporter.close calls so far
    failures,            \* exceptions that reached monitor()'s handlers:
                         \* [step, caught] of the last one, and how many
    \* ---- functions and objects called on their own
    alert_log,           \* check_thresholds calls so far: sample and alerts
    conn_call,           \* the last get_active_connections call: input, limit
    prom,                \* a PrometheusExporter object (SpecProm)
    prom_call,           \* the last call on prom and what it did
    http_servers         \* start_http_server calls that returned, on prom

sinkVars == <<influx, written, call>>
fanoutVars == <<PROMETHEUS_AVAILABLE, INFLUXDB_AVAILABLE, exporters, calls, ret>>
calcVars == <<interval, thresholds, prev_net_io, calc>>
monVars == <<METRICS_EXPORT_AVAILABLE, args, pc, outcome, metrics_exporter,
             start_time, current_net_io, speeds, active_conns, alerts,
             tick_exports, close_calls, failures>>
unitVars == <<alert_log, conn_call, prom, prom_call, http_servers>>
vars == <<now, nextId, sinkVars, fanoutVars, calcVars, monVars, unitVars>>

----------------------------------------------------------------------------
(* Bounds of the model *)

MaxTime == 3             \* the clock runs from 0 to MaxTime
MaxPoints == 3           \* Point objects created in one behaviour
MaxBatch == 2            \* batch_size is drawn from 1..MaxBatch
MaxFlushInterval == 2    \* flush_interval is drawn from 1..MaxFlushInterval

None == "None"

\* Inputs of export_metrics: (upload_speed, download_speed) and tags (None,
\* or the host/interface dictionary of the monitor).
ExportInputs == {<<<<0, 0>>, None>>, <<<<1, 2>>, "host_if">>}

\* A backend write returns at once or after a second.
WriteDurations == {0, 1}

MaxCount == 2            \* counters take the values 0..MaxCount * 1250000
MaxInterval == 2         \* --interval is drawn from -1..MaxInterval

\* psutil.net_io_counters(): cumulative bytes, with the time of the read.
Counters == {k * 1250000 : k \in 0..MaxCount}
Snapshot(sent, recv, t) == [bytes_sent |-> sent, bytes_recv |-> recv, takenAt |-> t]
NoSnapshot == Snapshot(-1, -1, -1)       \* Python's None

Intervals == -1..MaxInterval

----------------------------------------------------------------------------
(* Rates: exact fractions in lowest terms *)

Abs(x) == IF x < 0 THEN -x ELSE x

RECURSIVE GCD(_, _)
GCD(a, b) == IF b = 0 THEN a ELSE GCD(b, a % b)

\* n / d for d # 0.
Frac(n, d) ==
    LET g == GCD(Abs(n), Abs(d))
        sgn == IF d < 0 THEN -1 ELSE 1
    IN  [n |-> (sgn * n) \div g, d |-> (sgn * d) \div g]

Zero == [n |-> 0, d |-> 1]
NoRate == [n |-> 0, d |-> 0]             \* no value was returned
Less(a, b) == a.n * b.d < b.n * a.d
FromInt(k) == [n |-> k, d |-> 1]

----------------------------------------------------------------------------
(* NetworkMonitor.calculate_bandwidth *)

NoCalc == [called |-> FALSE, first |-> FALSE, prev |-> NoSnapshot,
           cur |-> NoSnapshot, upload |-> NoRate, download |-> NoRate,
           error |-> None]

\* calculate_bandwidth(current_net_io) on an object whose fields are prev
\* (self.prev_net_io) and itv (self.interval).  The first call stores the
\* snapshot and returns 0, 0.  Later calls divide the byte deltas, in bits,
\* by self.interval * 1_000_000; the division raises ZeroDivisionError when
\* that is 0, before self.prev_net_io is assigned.
calculate_bandwidth_noSeed(prev, itv, cur) ==
    IF itv * 1000000 = 0
    THEN [prev_net_io |-> prev, upload |-> NoRate, download |-> NoRate,
          error |-> "ZeroDivisionError"]
    ELSE [prev_net_io |-> cur,
          upload |-> Frac((cur.bytes_sent - prev.bytes_sent) * 8, itv * 1000000),
          download |-> Frac((cur.bytes_recv - prev.bytes_recv) * 8, itv * 1000000),
          error |-> None]

\* calculate_bandwidth that keeps the stored snapshot when a counter went
\* backwards.
calculate_bandwidth_keepOnWrap(prev, itv, cur) ==
    IF prev = NoSnapshot
    THEN [prev_net_io |-> cur, upload |-> Zero, download |-> Zero, error |-> None]
    ELSE IF itv * 1000000 = 0
    THEN [prev_net_io |-> prev, upload |-> NoRate, download |-> NoRate,
          error |-> "ZeroDivisionError"]
    ELSE [prev_net_io |-> IF \/ cur.bytes_sent < prev.bytes_sent
                             \/ cur.bytes_recv < prev.bytes_recv
                          THEN prev ELSE cur,
          upload |-> Frac((cur.bytes_sent - prev.bytes_sent) * 8, itv * 1000000),
          download |-> Frac((cur.bytes_recv - prev.bytes_recv) * 8, itv * 1000000),
          error |-> None]

calculate_bandwidth(prev, itv, cur) ==
    IF prev = NoSnapshot
    THEN [prev_net_io |-> cur, upload |-> Zero, download |-> Zero, error |-> None]
    ELSE IF itv * 1000000 = 0
    THEN [prev_net_io |-> prev, upload |-> NoRate, download |-> NoRate,
          error |-> "ZeroDivisionError"]
    ELSE [prev_net_io |-> cur,
          upload |-> Frac((cur.bytes_sent - prev.bytes_sent) * 8, itv * 1000000),
          download |-> Frac((cur.bytes_recv - prev.bytes_recv) * 8, itv * 1000000),
          error |-> None]

\* The record of a call: the fields before it, its argument and its result.
CalcCall(prev, cur, r) ==
    [called |-> TRUE, first |-> (prev = NoSnapshot), prev |-> prev, cur |-> cur,
     upload |-> r.upload, download |-> r.download, error |-> r.error]

----------------------------------------------------------------------------
(* InfluxDBExporter *)

\* __init__: empty buffer, last_flush_time = time.time(), client created.
InfluxDBExporter_init(bs, fi, t) ==
    [kind |-> "influx", batch_size |-> bs, flush_interval |-> fi,
     points_buffer |-> <<>>, last_flush_time |-> t, client_open |-> TRUE]

\* Point("network_bandwidth") with the caller's tags and the two fields.
NewPoint(id, sample, tags) ==
    [id |-> id, measurement |-> "network_bandwidth", tags |-> tags,
     upload_mbps |-> sample[1], download_mbps |-> sample[2]]

\* flush(): nothing on an empty buffer; otherwise one write of the whole
\* buffer, which on success empties the buffer and restarts the timer at the
\* time the write returned (t + d), and on failure (caught, logged) changes
\* nothing.  The result names the new fields and what was attempted.
InfluxDBExporter_flush_dropOnFail(s, ok, t, d) ==
    IF s.points_buffer = <<>>
    THEN [sink |-> s, write |-> "none", batch |-> <<>>, raised |-> FALSE]
    ELSE [sink |-> [s EXCEPT !.points_buffer = <<>>,
                             !.last_flush_time = t + d],
          write |-> IF ok THEN "ok" ELSE "fail",
          batch |-> s.points_buffer, raised |-> FALSE]

\* flush() that leaves the written points in the buffer.
InfluxDBExporter_flush_keepOnSuccess(s, ok, t, d) ==
    IF s.points_buffer = <<>>
    THEN [sink |-> s, write |-> "none", batch |-> <<>>, raised |-> FALSE]
    ELSE IF ok
         THEN [sink |-> [s EXCEPT !.last_flush_time = t + d],
               write |-> "ok", batch |-> s.points_buffer, raised |-> FALSE]
         ELSE [sink |-> s, write |-> "fail", batch |-> s.points_buffer,
               raised |-> FALSE]

\* flush() that restarts the timer also when the write failed.
InfluxDBExporter_flush_touchTimerOnFail(s, ok, t, d) ==
    IF s.points_buffer = <<>>
    THEN [sink |-> s, write |-> "none", batch |-> <<>>, raised |-> FALSE]
    ELSE IF ok
         THEN [sink |-> [s EXCEPT !.points_buffer = <<>>,
                                  !.last_flush_time = t + d],
               write |-> "ok", batch |-> s.points_buffer, raised |-> FALSE]
         ELSE [sink |-> [s EXCEPT !.last_flush_time = t + d],
               write |-> "fail", batch |-> s.points_buffer, raised |-> FALSE]

InfluxDBExporter_flush(s, ok, t, d) ==
    IF s.points_buffer = <<>>
    THEN [sink |-> s, write |-> "none", batch |-> <<>>, raised |-> FALSE]
    ELSE IF ok
         THEN [sink |-> [s EXCEPT !.points_buffer = <<>>,
                                  !.last_flush_time = t + d],
               write |-> "ok", batch |-> s.points_buffer, raised |-> FALSE]
         ELSE [sink |-> s, write |-> "fail", batch |-> s.points_buffer,
               raised |-> FALSE]

\* The condition of export_metrics lines 149-150, on the buffer after append.
ShouldFlush_countOnly(s, t) ==
    Len(s.points_buffer) >= s.batch_size

ShouldFlush(s, t) ==
    \/ Len(s.points_buffer) >= s.batch_size
    \/ (t - s.last_flush_time) >= s.flush_interval

\* export_metrics(upload_speed, download_speed, tags): append one point, then
\* flush when ShouldFlush.
InfluxDBExporter_export_metrics(s, id, sample, tags, ok, t, d) ==
    LET appended == [s EXCEPT !.points_buffer =
                                  Append(@, NewPoint(id, sample, tags))]
    IN  IF ShouldFlush(appended, t)
        THEN InfluxDBExporter_flush(appended, ok, t, d) @@ [flushed |-> TRUE]
        ELSE [sink |-> appended, write |-> "none", batch |-> <<>>,
              raised |-> FALSE, flushed |-> FALSE]

\* close() that leaves the client open when the write of its flush failed.
InfluxDBExporter_close_skipOnFail(s, ok, t, d, cok) ==
    LET r == InfluxDBExporter_flush(s, ok, t, d)
    IN  IF r.write = "fail"
        THEN r @@ [flushed |-> TRUE, order |-> <<"flush">>]
        ELSE [r EXCEPT !.sink.client_open = ~cok, !.raised = ~cok]
                 @@ [flushed |-> TRUE, order |-> <<"flush", "client.close">>]

\* close(): flush, then client.close(), whose exception (cok = FALSE) is not
\* caught here.  order lists the calls close makes, in the order it makes
\* them.
InfluxDBExporter_close(s, ok, t, d, cok) ==
    LET r == InfluxDBExporter_flush(s, ok, t, d)
    IN  [r EXCEPT !.sink.client_open = ~cok, !.raised = ~cok]
            @@ [flushed |-> TRUE, order |-> <<"flush", "client.close">>]

----------------------------------------------------------------------------
(* PrometheusExporter *)

\* __init__: two gauges (initially 0), server not started.
PrometheusExporter_init(port) ==
    [kind |-> "prom", port |-> port, server_started |-> FALSE,
     upload_gauge |-> 0, download_gauge |-> 0]

\* start_server(): start_http_server once; its exception (bindOk = FALSE,
\* e.g. the port is taken) propagates and leaves server_started False.
\* started tells whether a start_http_server call returned.
PrometheusExporter_start_server_unguarded(s, bindOk) ==
    IF bindOk
    THEN [sink |-> [s EXCEPT !.server_started = TRUE], raised |-> FALSE,
          started |-> TRUE]
    ELSE [sink |-> s, raised |-> TRUE, started |-> FALSE]

PrometheusExporter_start_server(s, bindOk) ==
    IF ~s.server_started
    THEN IF bindOk
         THEN [sink |-> [s EXCEPT !.server_started = TRUE], raised |-> FALSE,
               started |-> TRUE]
         ELSE [sink |-> s, raised |-> TRUE, started |-> FALSE]
    ELSE [sink |-> s, raised |-> FALSE, started |-> FALSE]

\* export_metrics(upload_speed, download_speed): start the server if needed,
\* then set the two gauges.
PrometheusExporter_export_metrics(s, sample, bindOk) ==
    LET st == IF ~s.server_started
              THEN PrometheusExporter_start_server(s, bindOk)
              ELSE [sink |-> s, raised |-> FALSE, started |-> FALSE]
    IN  IF st.raised
        THEN st
        ELSE [sink |-> [st.sink EXCEPT !.upload_gauge = sample[1],
                                       !.download_gauge = sample[2]],
              raised |-> FALSE, started |-> st.started]

\* The time series the exporter's metrics expose: the two gauges created in
\* __init__, neither of which has labels.
PrometheusExporter_series(s) ==
    {[name |-> "network_upload_mbps", labels |-> <<>>, value |-> s.upload_gauge],
     [name |-> "network_download_mbps", labels |-> <<>>,
      value |-> s.download_gauge]}

----------------------------------------------------------------------------
(* SpecInflux: one InfluxDBExporter driven by arbitrary calls *)

NoCall == [op |-> "init", pre |-> None, at |-> 0, flushed |-> FALSE,
           write |-> "none", batch |-> <<>>, raised |-> FALSE,
           connections |-> <<>>, order |-> <<>>]

NoRet == [op |-> "init", value |-> None, raised |-> FALSE, args |-> <<>>]

FanoutIdle ==
    /\ PROMETHEUS_AVAILABLE = TRUE
    /\ INFLUXDB_AVAILABLE = TRUE
    /\ exporters = <<>>
    /\ calls = <<>>
    /\ ret = NoRet

\* DEFAULT_THRESHOLDS (lines 36-39).
DEFAULT_THRESHOLDS == [upload |-> 100, download |-> 150]

NoFailure == [step |-> None, caught |-> FALSE, count |-> 0]
NoArgs == [prometheus |-> FALSE, influxdb |-> FALSE, duration |-> <<>>]

MonitorIdle ==
    /\ METRICS_EXPORT_AVAILABLE = TRUE
    /\ args = NoArgs
    /\ pc = "idle"
    /\ outcome = None
    /\ metrics_exporter = FALSE
    /\ start_time = 0
    /\ current_net_io = NoSnapshot
    /\ speeds = <<Zero, Zero>>
    /\ active_conns = <<>>
    /\ alerts = <<>>
    /\ tick_exports = 0
    /\ close_calls = 0
    /\ failures = NoFailure

CalcIdle ==
    /\ interval = 1
    /\ thresholds = DEFAULT_THRESHOLDS
    /\ prev_net_io = NoSnapshot
    /\ calc = NoCalc

NoConnCall == [called |-> FALSE, conns |-> <<>>, resolved |-> {}, limit |-> 0,
               result |-> <<>>]
NoPromCall == [op |-> "init", pre |-> PrometheusExporter_init(8000),
               sample |-> <<0, 0>>, connections |-> <<>>, raised |-> FALSE,
               started |-> FALSE, n |-> 0]

UnitIdle ==
    /\ alert_log = <<>>
    /\ conn_call = NoConnCall
    /\ prom = PrometheusExporter_init(8000)
    /\ prom_call = NoPromCall
    /\ http_servers = 0

InitInflux ==
    /\ now = 0
    /\ nextId = 1
    /\ \E bs \in 1..MaxBatch, fi \in 1..MaxFlushInterval :
           influx = InfluxDBExporter_init(bs, fi, 0)
    /\ written = <<>>
    /\ call = NoCall
    /\ FanoutIdle
    /\ CalcIdle
    /\ MonitorIdle
    /\ UnitIdle

\* What a call leaves behind: the new fields, the accepted batch, the record
\* of the call, and the time the write took.
InfluxReturn(op, r) ==
    /\ influx' = r.sink
    /\ written' = IF r.write = "ok" THEN Append(written, r.batch) ELSE written
    /\ call' = [op |-> op, pre |-> influx, at |-> now, flushed |-> r.flushed,
                write |-> r.write, batch |-> r.batch, raised |-> r.raised,
                connections |-> IF "connections" \in DOMAIN r
                                THEN r.connections ELSE <<>>,
                order |-> IF "order" \in DOMAIN r THEN r.order ELSE <<>>]

\* Time passes between calls.
Elapse ==
    /\ now < MaxTime
    /\ now' = now + 1
    /\ UNCHANGED <<nextId, sinkVars, fanoutVars, calcVars, monVars, unitVars>>

\* What the caller holds of get_active_connections when it exports.
ConnSnapshots == {<<>>, <<[remote_ip |-> "10.0.0.1", remote_port |-> 443,
                           hostname |-> "N/A"]>>}

\* export_metrics(upload_speed, download_speed, tags) has no parameter for the
\* caller's connection snapshot; the call record keeps the snapshot the
\* caller held.
InfluxExport ==
    /\ influx.client_open
    /\ nextId <= MaxPoints
    /\ \E in \in ExportInputs, ok \in BOOLEAN, d \in WriteDurations,
          conns \in ConnSnapshots :
          LET r == InfluxDBExporter_export_metrics(influx, nextId, in[1], in[2],
                                                   ok, now, d)
                       @@ [connections |-> conns]
              took == IF r.write = "none" THEN 0 ELSE d
          IN  /\ now + took <= MaxTime
              /\ InfluxReturn("export_metrics", r)
              /\ now' = now + took
    /\ nextId' = nextId + 1
    /\ UNCHANGED <<fanoutVars, calcVars, monVars, unitVars>>

InfluxFlush ==
    /\ influx.client_open
    /\ \E ok \in BOOLEAN, d \in WriteDurations :
          LET r == InfluxDBExporter_flush(influx, ok, now, d) @@ [flushed |-> TRUE]
              took == IF r.write = "none" THEN 0 ELSE d
          IN  /\ now + took <= MaxTime
              /\ InfluxReturn("flush", r)
              /\ now' = now + took
    /\ UNCHANGED <<nextId, fanoutVars, calcVars, monVars, unitVars>>

InfluxClose ==
    /\ influx.client_open
    /\ \E ok \in BOOLEAN, d \in WriteDurations, cok \in BOOLEAN :
          LET r == InfluxDBExporter_close(influx, ok, now, d, cok)
              took == IF r.write = "none" THEN 0 ELSE d
          IN  /\ now + took <= MaxTime
              /\ InfluxReturn("close", r)
              /\ now' = now + took
    /\ UNCHANGED <<nextId, fanoutVars, calcVars, monVars, unitVars>>

NextInflux == Elapse \/ InfluxExport \/ InfluxFlush \/ InfluxClose

SpecInflux == InitInflux /\ [][NextInflux]_vars

----------------------------------------------------------------------------
(* Properties of InfluxDBExporter, checked under SpecInflux *)

\* The buffer a call handed to flush: for export_metrics the buffer before
\* the call plus the one appended point, otherwise the buffer before the call.
AppendedLen ==
    Len(call.pre.points_buffer) + (IF call.op = "export_metrics" THEN 1 ELSE 0)

\* The two triggers of the flush policy, evaluated on the state in which
\* export_metrics made its check.
CountTrigger == AppendedLen >= call.pre.batch_size
TimeTrigger == (call.at - call.pre.last_flush_time) >= call.pre.flush_interval

\* C1: after every export_metrics call returns, a write was attempted in that
\* call if and only if, after appending, the buffer held batch_size or more
\* points or flush_interval or more seconds had passed since the last flush;
\* when the write was not refused, fewer than batch_size points remain.
C1_FlushPolicy ==
    call.op = "export_metrics" =>
        /\ (call.write # "none") <=> (CountTrigger \/ TimeTrigger)
        /\ call.flushed <=> (CountTrigger \/ TimeTrigger)
        /\ call.write # "fail" => Len(influx.points_buffer) < influx.batch_size

\* C1 witness: an export whose flush was due to the time trigger alone and
\* whose write the backend accepted.
C1_Witness ==
    /\ call.op = "export_metrics"
    /\ call.write = "ok"
    /\ ~CountTrigger
    /\ TimeTrigger
    /\ influx.points_buffer = <<>>

\* C2: a flush whose write fails leaves the buffer as it was handed to the
\* write (same points, same order) and raises nothing; a flush whose write
\* succeeds hands over every buffered point and leaves the buffer empty.
C2_FailedFlushKeepsPoints ==
    /\ ~call.raised \/ call.op = "close"
    /\ call.write # "none" =>
          /\ Len(call.batch) = AppendedLen
          /\ SubSeq(call.batch, 1, Len(call.pre.points_buffer))
                 = call.pre.points_buffer
    /\ call.write = "fail" =>
          /\ influx.points_buffer = call.batch
          /\ call.op # "close" => ~call.raised
    /\ call.write = "ok" =>
          /\ influx.points_buffer = <<>>
          /\ written # <<>>
          /\ written[Len(written)] = call.batch

\* C2 witness: a successful flush draining points that an earlier, failed
\* flush had left behind (the buffer had reached batch_size, so an export had
\* already tried to write it).
C2_Witness ==
    /\ call.op = "flush"
    /\ call.write = "ok"
    /\ Len(call.pre.points_buffer) >= call.pre.batch_size
    /\ Len(call.pre.points_buffer) >= 2
    /\ influx.points_buffer = <<>>

----------------------------------------------------------------------------
(* MetricsExporter *)

\* add_prometheus_exporter(port): False when the library is missing or the
\* constructor raises (ctorOk = FALSE); otherwise the new exporter is
\* appended and True returned.
\* add_prometheus_exporter without its try/except: the exception of the
\* constructor propagates.
MetricsExporter_add_prometheus_exporter_noCatch(exps, avail, port, ctorOk) ==
    IF ~avail
    THEN [exporters |-> exps, value |-> FALSE, raised |-> FALSE]
    ELSE IF ctorOk
         THEN [exporters |-> Append(exps, PrometheusExporter_init(port)),
               value |-> TRUE, raised |-> FALSE]
         ELSE [exporters |-> exps, value |-> FALSE, raised |-> TRUE]

MetricsExporter_add_prometheus_exporter(exps, avail, port, ctorOk) ==
    IF ~avail
    THEN [exporters |-> exps, value |-> FALSE, raised |-> FALSE]
    ELSE IF ctorOk
         THEN [exporters |-> Append(exps, PrometheusExporter_init(port)),
               value |-> TRUE, raised |-> FALSE]
         ELSE [exporters |-> exps, value |-> FALSE, raised |-> FALSE]

\* add_influxdb_exporter(..., batch_size, flush_interval): likewise.
MetricsExporter_add_influxdb_exporter(exps, avail, bs, fi, t, ctorOk) ==
    IF ~avail
    THEN [exporters |-> exps, value |-> FALSE, raised |-> FALSE]
    ELSE IF ctorOk
         THEN [exporters |-> Append(exps, InfluxDBExporter_init(bs, fi, t)),
               value |-> TRUE, raised |-> FALSE]
         ELSE [exporters |-> exps, value |-> FALSE, raised |-> FALSE]

\* One entry of the log of sink calls: which exporter, which method, the
\* arguments it was given, and whether the call raised.
SinkCall(i, s, method, given, raised) ==
    [sink |-> i, kind |-> s.kind, method |-> method, args |-> given,
     raised |-> raised]

\* The body of the loop of export_metrics (lines 266-272) for one exporter:
\* a PrometheusExporter gets (upload_speed, download_speed), an
\* InfluxDBExporter gets (upload_speed, download_speed, tags); an exception of
\* the call is caught and logged.  ok is the outcome the environment gives
\* the call: the bind of the metrics server, or the backend write.
TryExport_noCatch(i, s, id, sample, tags, ok, t, d) ==
    IF s.kind = "prom"
    THEN LET r == PrometheusExporter_export_metrics(s, sample, ok)
         IN  [sink |-> r.sink, t |-> t, escaped |-> r.raised,
              call |-> SinkCall(i, s, "export_metrics",
                                <<sample[1], sample[2]>>, r.raised)]
    ELSE LET r == InfluxDBExporter_export_metrics(s, id, sample, tags, ok, t, d)
         IN  [sink |-> r.sink, t |-> IF r.write = "none" THEN t ELSE t + d,
              escaped |-> r.raised,
              call |-> SinkCall(i, s, "export_metrics",
                                <<sample[1], sample[2], tags>>, r.raised)]

TryExport(i, s, id, sample, tags, ok, t, d) ==
    IF s.kind = "prom"
    THEN LET r == PrometheusExporter_export_metrics(s, sample, ok)
         IN  [sink |-> r.sink, t |-> t, escaped |-> FALSE,
              call |-> SinkCall(i, s, "export_metrics",
                                <<sample[1], sample[2]>>, r.raised)]
    ELSE LET r == InfluxDBExporter_export_metrics(s, id, sample, tags, ok, t, d)
         IN  [sink |-> r.sink, t |-> IF r.write = "none" THEN t ELSE t + d,
              escaped |-> FALSE,
              call |-> SinkCall(i, s, "export_metrics",
                                <<sample[1], sample[2], tags>>, r.raised)]

\* for exporter in self.exporters: from exporter i on.  An exception that
\* escapes the body ends the loop and the call.
RECURSIVE ExportLoop(_, _, _, _, _, _, _)
ExportLoop(acc, i, id, sample, tags, oks, d) ==
    IF i > Len(acc.exporters) \/ acc.raised
    THEN acc
    ELSE LET r == TryExport(i, acc.exporters[i], id, sample, tags, oks[i],
                            acc.t, d)
         IN  ExportLoop([exporters |-> [acc.exporters EXCEPT ![i] = r.sink],
                         calls |-> Append(acc.calls, r.call),
                         t |-> r.t, raised |-> r.escaped],
                        i + 1, id, sample, tags, oks, d)

\* export_metrics(upload_speed, download_speed, tags).
MetricsExporter_export_metrics(exps, id, sample, tags, oks, t, d) ==
    ExportLoop([exporters |-> exps, calls |-> <<>>, t |-> t, raised |-> FALSE],
               1, id, sample, tags, oks, d)

\* The body of the loop of close (lines 277-281) for one exporter: only an
\* exporter that has a close method (InfluxDBExporter) is closed; an
\* exception of close is caught and logged.
TryClose_noCatch(i, s, ok, t, d, cok) ==
    IF s.kind = "influx"
    THEN LET r == InfluxDBExporter_close(s, ok, t, d, cok)
         IN  [sink |-> r.sink, t |-> IF r.write = "none" THEN t ELSE t + d,
              escaped |-> r.raised,
              calls |-> <<SinkCall(i, s, "close", <<>>, r.raised)>>]
    ELSE [sink |-> s, t |-> t, escaped |-> FALSE, calls |-> <<>>]

TryClose(i, s, ok, t, d, cok) ==
    IF s.kind = "influx"
    THEN LET r == InfluxDBExporter_close(s, ok, t, d, cok)
         IN  [sink |-> r.sink, t |-> IF r.write = "none" THEN t ELSE t + d,
              escaped |-> FALSE,
              calls |-> <<SinkCall(i, s, "close", <<>>, r.raised)>>]
    ELSE [sink |-> s, t |-> t, escaped |-> FALSE, calls |-> <<>>]

RECURSIVE CloseLoop(_, _, _, _, _)
CloseLoop(acc, i, oks, d, coks) ==
    IF i > Len(acc.exporters) \/ acc.raised
    THEN acc
    ELSE LET r == TryClose(i, acc.exporters[i], oks[i], acc.t, d, coks[i])
         IN  CloseLoop([exporters |-> [acc.exporters EXCEPT ![i] = r.sink],
                        calls |-> acc.calls \o r.calls,
                        t |-> r.t, raised |-> r.escaped],
                       i + 1, oks, d, coks)

\* close().
MetricsExporter_close(exps, oks, t, d, coks) ==
    CloseLoop([exporters |-> exps, calls |-> <<>>, t |-> t, raised |-> FALSE],
              1, oks, d, coks)

----------------------------------------------------------------------------
(* SpecFanout: one MetricsExporter driven by arbitrary calls *)

MaxSinks == 2            \* exporters registered in one behaviour
MaxExports == 2          \* export_metrics calls in one behaviour

Ports == {8000}

SinkIdle ==
    /\ influx = None
    /\ written = <<>>
    /\ call = NoCall

InitFanout ==
    /\ now = 0
    /\ nextId = 1
    /\ SinkIdle
    /\ PROMETHEUS_AVAILABLE \in BOOLEAN
    /\ INFLUXDB_AVAILABLE \in BOOLEAN
    /\ exporters = <<>>
    /\ calls = <<>>
    /\ ret = NoRet
    /\ CalcIdle
    /\ MonitorIdle
    /\ UnitIdle

\* The driver registers exporters before the first export (configuration
\* time) and makes no call after close.  The clock stands still here: no
\* time passes between the calls and backend writes take no time (SpecInflux
\* lets time pass, and with it the flush interval).
Open == ret.op # "close"
Configuring == Open /\ nextId = 1

AddPrometheus ==
    /\ Configuring
    /\ Len(exporters) < MaxSinks
    /\ \E port \in Ports, ctorOk \in BOOLEAN :
          LET r == MetricsExporter_add_prometheus_exporter(
                       exporters, PROMETHEUS_AVAILABLE, port, ctorOk)
          IN  /\ exporters' = r.exporters
              /\ ret' = [op |-> "add_prometheus_exporter", value |-> r.value,
                         raised |-> r.raised, args |-> <<port>>]
    /\ calls' = <<>>
    /\ UNCHANGED <<now, nextId, sinkVars, calcVars, monVars, unitVars,
                   PROMETHEUS_AVAILABLE,
                   INFLUXDB_AVAILABLE>>

AddInflux ==
    /\ Configuring
    /\ Len(exporters) < MaxSinks
    /\ \E bs \in {1, MaxBatch}, fi \in {MaxFlushInterval}, ctorOk \in BOOLEAN :
          LET r == MetricsExporter_add_influxdb_exporter(
                       exporters, INFLUXDB_AVAILABLE, bs, fi, now, ctorOk)
          IN  /\ exporters' = r.exporters
              /\ ret' = [op |-> "add_influxdb_exporter", value |-> r.value,
                         raised |-> r.raised, args |-> <<bs, fi>>]
    /\ calls' = <<>>
    /\ UNCHANGED <<now, nextId, sinkVars, calcVars, monVars, unitVars,
                   PROMETHEUS_AVAILABLE,
                   INFLUXDB_AVAILABLE>>

FanoutExport ==
    /\ Open
    /\ nextId <= MaxExports
    /\ \E in \in ExportInputs, d \in {0},
          oks \in [1..Len(exporters) -> BOOLEAN] :
          LET r == MetricsExporter_export_metrics(exporters, nextId, in[1],
                                                  in[2], oks, now, d)
          IN  /\ r.t <= MaxTime
              /\ exporters' = r.exporters
              /\ calls' = r.calls
              /\ now' = r.t
              /\ ret' = [op |-> "export_metrics", value |-> None,
                         raised |-> r.raised, args |-> in]
    /\ nextId' = nextId + 1
    /\ UNCHANGED <<sinkVars, calcVars, monVars, unitVars,
                   PROMETHEUS_AVAILABLE,
                   INFLUXDB_AVAILABLE>>

FanoutClose ==
    /\ Open
    /\ \E d \in {0}, oks \in [1..Len(exporters) -> BOOLEAN],
          coks \in [1..Len(exporters) -> BOOLEAN] :
          LET r == MetricsExporter_close(exporters, oks, now, d, coks)
          IN  /\ r.t <= MaxTime
              /\ exporters' = r.exporters
              /\ calls' = r.calls
              /\ now' = r.t
              /\ ret' = [op |-> "close", value |-> None, raised |-> r.raised,
                         args |-> <<>>]
    /\ UNCHANGED <<nextId, sinkVars, calcVars, monVars, unitVars,
                   PROMETHEUS_AVAILABLE,
                   INFLUXDB_AVAILABLE>>

NextFanout == AddPrometheus \/ AddInflux \/ FanoutExport \/ FanoutClose

SpecFanout == InitFanout /\ [][NextFanout]_vars

----------------------------------------------------------------------------
(* Properties of MetricsExporter, checked under SpecFanout *)

ExportReturned == ret.op = "export_metrics"
SampleOf(given) == <<given[1], given[2]>>

----------------------------------------------------------------------------
(* SpecCalc: one NetworkMonitor whose calculate_bandwidth is called with
   arbitrary snapshots *)

InitCalc ==
    /\ now = 0
    /\ nextId = 1
    /\ SinkIdle
    /\ FanoutIdle
    /\ interval \in Intervals
    /\ thresholds = DEFAULT_THRESHOLDS
    /\ prev_net_io = NoSnapshot
    /\ calc = NoCalc
    /\ MonitorIdle
    /\ UnitIdle

CalcElapse ==
    /\ now < MaxTime
    /\ now' = now + 1
    /\ UNCHANGED <<nextId, sinkVars, fanoutVars, calcVars, monVars, unitVars>>

CalcCompute ==
    /\ \E sent \in Counters, recv \in Counters :
          LET cur == Snapshot(sent, recv, now)
              r == calculate_bandwidth(prev_net_io, interval, cur)
          IN  /\ prev_net_io' = r.prev_net_io
              /\ calc' = CalcCall(prev_net_io, cur, r)
    /\ UNCHANGED <<now, nextId, sinkVars, fanoutVars, monVars, unitVars,
                   interval,
                   thresholds>>

NextCalc == CalcElapse \/ CalcCompute

SpecCalc == InitCalc /\ [][NextCalc]_vars

----------------------------------------------------------------------------
(* get_active_connections and check_thresholds *)

\* psutil.net_connections(kind="inet"): sockets with a remote address
\* <<ip, port>>, or without one (<<>>).
Sock(ip, port) == [raddr |-> <<ip, port>>]
Listening == [raddr |-> <<>>]
SocketLists == {<<>>, <<Sock("10.0.0.1", 443), Listening, Sock("10.0.0.1", 80)>>}
IPs == {"10.0.0.1"}

\* One entry of the result; the reverse lookup succeeds for the addresses in
\* resolved and gives "N/A" for the others.
ConnInfo(c, resolved) ==
    [remote_ip |-> c.raddr[1], remote_port |-> c.raddr[2],
     hostname |-> IF c.raddr[1] \in resolved THEN "host" ELSE "N/A"]

RECURSIVE Results(_, _)
Results(conns, resolved) ==
    IF conns = <<>>
    THEN <<>>
    ELSE (IF Head(conns).raddr # <<>>
          THEN <<ConnInfo(Head(conns), resolved)>>
          ELSE <<>>) \o Results(Tail(conns), resolved)

\* Python's seq[:limit]: the first limit elements, or all of them when there
\* are fewer; a negative limit drops that many elements from the end.
SliceTo(seq, limit) ==
    LET stop == IF limit < 0 THEN Len(seq) + limit ELSE limit
        upto == IF stop < 0 THEN 0 ELSE IF stop > Len(seq) THEN Len(seq) ELSE stop
    IN  SubSeq(seq, 1, upto)

\* The slice taken from the sockets instead of from the results.
get_active_connections_sliceFirst(conns, resolved, limit) ==
    Results(SliceTo(conns, limit), resolved)

\* get_active_connections(limit): results[:limit].
get_active_connections(conns, resolved, limit) ==
    SliceTo(Results(conns, resolved), limit)

\* The comparison with >= instead of >.
check_thresholds_atLeast(th, upload_speed, download_speed) ==
    (IF ~Less(upload_speed, FromInt(th.upload))
     THEN <<[direction |-> "upload", current_value |-> upload_speed,
             threshold |-> th.upload]>>
     ELSE <<>>)
    \o
    (IF ~Less(download_speed, FromInt(th.download))
     THEN <<[direction |-> "download", current_value |-> download_speed,
             threshold |-> th.download]>>
     ELSE <<>>)

\* The second comparison as an elif of the first.
check_thresholds_elif(th, upload_speed, download_speed) ==
    IF Less(FromInt(th.upload), upload_speed)
    THEN <<[direction |-> "upload", current_value |-> upload_speed,
            threshold |-> th.upload]>>
    ELSE IF Less(FromInt(th.download), download_speed)
         THEN <<[direction |-> "download", current_value |-> download_speed,
                 threshold |-> th.download]>>
         ELSE <<>>

\* No alert in the call that follows a call that alerted.
check_thresholds_debounced(th, upload_speed, download_speed) ==
    IF alerts # <<>>
    THEN <<>>
    ELSE (IF Less(FromInt(th.upload), upload_speed)
          THEN <<[direction |-> "upload", current_value |-> upload_speed,
                  threshold |-> th.upload]>>
          ELSE <<>>)
         \o
         (IF Less(FromInt(th.download), download_speed)
          THEN <<[direction |-> "download", current_value |-> download_speed,
                  threshold |-> th.download]>>
          ELSE <<>>)

\* check_thresholds(upload_speed, download_speed): the alerts trigger_alert
\* is called with, in order.
check_thresholds(th, upload_speed, download_speed) ==
    (IF Less(FromInt(th.upload), upload_speed)
     THEN <<[direction |-> "upload", current_value |-> upload_speed,
             threshold |-> th.upload]>>
     ELSE <<>>)
    \o
    (IF Less(FromInt(th.download), download_speed)
     THEN <<[direction |-> "download", current_value |-> download_speed,
             threshold |-> th.download]>>
     ELSE <<>>)

----------------------------------------------------------------------------
(* SpecMonitor: the program, from __main__ to exit *)

MaxDuration == 2         \* --duration is None or drawn from 0..MaxDuration

\* The exporters __main__ adds use the defaults of add_influxdb_exporter.
DefaultBatchSize == 10
DefaultFlushInterval == 10

ThresholdChoices == {[upload |-> 10, download |-> 10]}
Durations == {<<>>} \cup {<<n>> : n \in 0..MaxDuration}

InLoop == pc \in {"check", "read", "calc", "log", "export", "thresholds", "sleep"}

InitMonitor ==
    /\ now = 0
    /\ nextId = 1
    /\ SinkIdle
    /\ PROMETHEUS_AVAILABLE = TRUE
    /\ INFLUXDB_AVAILABLE = TRUE
    /\ exporters = <<>>
    /\ calls = <<>>
    /\ ret = NoRet
    /\ interval \in Intervals
    /\ thresholds \in ThresholdChoices
    /\ prev_net_io = NoSnapshot
    /\ calc = NoCalc
    /\ METRICS_EXPORT_AVAILABLE = TRUE
    /\ args \in [prometheus : BOOLEAN, influxdb : BOOLEAN, duration : Durations]
    /\ pc = "config"
    /\ outcome = None
    /\ metrics_exporter = FALSE
    /\ start_time = 0
    /\ current_net_io = NoSnapshot
    /\ speeds = <<Zero, Zero>>
    /\ active_conns = <<>>
    /\ alerts = <<>>
    /\ tick_exports = 0
    /\ close_calls = 0
    /\ failures = NoFailure
    /\ UnitIdle

\* Variables no step of the loop changes.
fixedVars == <<nextId, sinkVars, fanoutVars, unitVars, interval, thresholds,
               METRICS_EXPORT_AVAILABLE, args, metrics_exporter, close_calls>>

\* monitor() returns: its locals are gone, and so is what the model recorded
\* of the tick.
Return(how) ==
    /\ outcome' = how
    /\ pc' = "returned"
    /\ start_time' = 0
    /\ current_net_io' = NoSnapshot
    /\ speeds' = <<Zero, Zero>>
    /\ calc' = NoCalc
    /\ alerts' = <<>>
    /\ tick_exports' = 0

\* An exception reaches the handler of line 222, which ends the loop.
Raise(step) ==
    /\ failures' = [step |-> step, caught |-> FALSE, count |-> failures.count + 1]
    /\ Return("failed")

\* __main__ lines 273-293: build the MetricsExporter and add the exporters
\* the command line asks for.
Configure ==
    /\ pc = "config"
    /\ IF METRICS_EXPORT_AVAILABLE /\ (args.prometheus \/ args.influxdb)
       THEN \E promOk \in BOOLEAN, influxOk \in BOOLEAN :
              LET p == IF args.prometheus
                       THEN MetricsExporter_add_prometheus_exporter(
                                <<>>, PROMETHEUS_AVAILABLE, 8000, promOk)
                       ELSE [exporters |-> <<>>]
                  i == IF args.influxdb
                       THEN MetricsExporter_add_influxdb_exporter(
                                p.exporters, INFLUXDB_AVAILABLE,
                                DefaultBatchSize, DefaultFlushInterval,
                                now, influxOk)
                       ELSE p
              IN  /\ exporters' = i.exporters
                  /\ metrics_exporter' = TRUE
       ELSE /\ exporters' = <<>>
            /\ metrics_exporter' = FALSE
    /\ pc' = "start"
    /\ UNCHANGED <<now, nextId, sinkVars, unitVars, PROMETHEUS_AVAILABLE,
                   INFLUXDB_AVAILABLE,
                   calls, ret, calcVars, METRICS_EXPORT_AVAILABLE, args, outcome,
                   start_time, current_net_io, speeds, active_conns, alerts,
                   tick_exports, close_calls, failures>>

\* __main__ lines 297-304 and monitor() lines 158-159: construct the monitor
\* and enter monitor().
Start ==
    /\ pc = "start"
    /\ start_time' = now
    /\ pc' = "check"
    /\ UNCHANGED <<now, fixedVars, prev_net_io, calc, outcome, current_net_io,
                   speeds, active_conns, alerts, tick_exports, failures>>

\* Lines 163-166: the duration check that opens every tick.  What the model
\* recorded of the previous tick is cleared.
DurationElapsed ==
    /\ args.duration # <<>>
    /\ args.duration[1] # 0
    /\ (now - start_time) > args.duration[1]

CheckDuration ==
    /\ pc = "check"
    /\ IF DurationElapsed
       THEN Return("stopped")
       ELSE /\ pc' = "read"
            /\ current_net_io' = NoSnapshot
            /\ speeds' = <<Zero, Zero>>
            /\ calc' = NoCalc
            /\ alerts' = <<>>
            /\ tick_exports' = 0
            /\ UNCHANGED <<outcome, start_time>>
    /\ failures' = NoFailure
    /\ UNCHANGED <<now, fixedVars, prev_net_io, active_conns>>

\* Line 169: get_network_usage(), which returns the counters or raises.
ReadCounters ==
    /\ pc = "read"
    /\ \/ /\ \E sent \in Counters, recv \in Counters :
                current_net_io' = Snapshot(sent, recv, now)
          /\ pc' = "calc"
          /\ UNCHANGED <<outcome, failures, start_time, speeds, calc, alerts,
                         tick_exports>>
       \/ Raise("get_network_usage")
    /\ UNCHANGED <<now, fixedVars, prev_net_io, active_conns>>

\* Line 172: calculate_bandwidth(current_net_io).
Calculate ==
    /\ pc = "calc"
    /\ LET r == calculate_bandwidth(prev_net_io, interval, current_net_io)
       IN  /\ prev_net_io' = r.prev_net_io
           /\ IF r.error = None
              THEN /\ calc' = CalcCall(prev_net_io, current_net_io, r)
                   /\ speeds' = <<r.upload, r.download>>
                   /\ pc' = "log"
                   /\ UNCHANGED <<outcome, failures, start_time, current_net_io,
                                  alerts, tick_exports>>
              ELSE Raise(r.error)
    /\ UNCHANGED <<now, fixedVars, active_conns>>

\* Lines 175-182: when there is traffic, log it and the active connections;
\* get_active_connections returns the list or raises.
LogTraffic ==
    /\ pc = "log"
    /\ IF Less(Zero, speeds[1]) \/ Less(Zero, speeds[2])
       THEN \/ /\ \E conns \in SocketLists, resolved \in SUBSET IPs :
                     active_conns' = get_active_connections(conns, resolved, 5)
               /\ pc' = "export"
               /\ UNCHANGED <<outcome, failures, start_time, current_net_io,
                              speeds, calc, alerts, tick_exports>>
            \/ /\ Raise("get_active_connections")
               /\ UNCHANGED active_conns
       ELSE /\ pc' = "export"
            /\ UNCHANGED <<active_conns, outcome, failures, start_time,
                           current_net_io, speeds, calc, alerts, tick_exports>>
    /\ UNCHANGED <<now, fixedVars, prev_net_io>>

\* The export step without its try/except: an exception of the interface
\* lookup reaches the handler of line 222.
ExportStep_uncaught ==
    /\ pc = "export"
    /\ IF metrics_exporter
       THEN \/ /\ pc' = "thresholds"
               /\ UNCHANGED <<failures, calc, outcome, start_time,
                              current_net_io, speeds, alerts, tick_exports>>
            \/ Raise("net_if_addrs")
       ELSE /\ pc' = "thresholds"
            /\ UNCHANGED <<failures, calc, outcome, start_time,
                           current_net_io, speeds, alerts, tick_exports>>
    /\ UNCHANGED <<now, fixedVars, prev_net_io, active_conns>>

\* Lines 185-212: with an exporter, look up the interface for the tags; an
\* exception of the lookup is caught and logged.  The export_metrics call of
\* line 209 is commented out, so no exporter is called.
ExportStep ==
    /\ pc = "export"
    /\ IF metrics_exporter
       THEN \E lookupOk \in BOOLEAN :
              failures' = IF lookupOk
                          THEN failures
                          ELSE [step |-> "net_if_addrs", caught |-> TRUE,
                                count |-> failures.count]
       ELSE UNCHANGED failures
    /\ pc' = "thresholds"
    /\ UNCHANGED <<now, fixedVars, prev_net_io, calc, outcome, start_time,
                   current_net_io, speeds, active_conns, alerts, tick_exports>>

\* Line 215: check_thresholds(upload_speed, download_speed).
CheckThresholds ==
    /\ pc = "thresholds"
    /\ alerts' = check_thresholds(thresholds, speeds[1], speeds[2])
    /\ pc' = "sleep"
    /\ UNCHANGED <<now, fixedVars, prev_net_io, calc, outcome, start_time,
                   current_net_io, speeds, active_conns, tick_exports, failures>>

\* Line 218: time.sleep(self.interval), which raises ValueError for a
\* negative interval.
Sleep ==
    /\ pc = "sleep"
    /\ IF interval < 0
       THEN /\ Raise("sleep")
            /\ UNCHANGED now
       ELSE /\ now + interval <= MaxTime
            /\ now' = now + interval
            /\ pc' = "check"
            /\ UNCHANGED <<outcome, failures, start_time, current_net_io, speeds,
                           calc, alerts, tick_exports>>
    /\ UNCHANGED <<fixedVars, prev_net_io, active_conns>>

\* The work of a tick takes time (the reverse lookups of the log step can
\* block).
Work ==
    /\ pc = "log"
    /\ now < MaxTime
    /\ now' = now + 1
    /\ UNCHANGED <<nextId, sinkVars, fanoutVars, calcVars, monVars, unitVars>>

\* A KeyboardInterrupt that is noted and after which the loop goes on with
\* its next tick.
Interrupt_resumes ==
    /\ pc = "start" \/ InLoop
    /\ outcome' = "interrupted"
    /\ pc' = "check"
    /\ UNCHANGED <<now, fixedVars, prev_net_io, active_conns, failures,
                   start_time, current_net_io, speeds, calc, alerts,
                   tick_exports>>

\* KeyboardInterrupt: caught by monitor() line 220 anywhere in the loop, and
\* otherwise on its way through __main__'s finally.
Interrupt ==
    /\ pc = "start" \/ InLoop
    /\ Return("interrupted")
    /\ UNCHANGED <<now, fixedVars, prev_net_io, active_conns, failures>>

\* __main__ lines 305-311: the finally clause closes the MetricsExporter, if
\* there is one.
Teardown_onlyOnReturn ==
    /\ pc = "returned"
    /\ IF metrics_exporter /\ outcome = "stopped"
       THEN \E oks \in [1..Len(exporters) -> BOOLEAN],
               coks \in [1..Len(exporters) -> BOOLEAN] :
              LET r == MetricsExporter_close(exporters, oks, now, 0, coks)
              IN  /\ exporters' = r.exporters
                  /\ calls' = r.calls
                  /\ ret' = [op |-> "close", value |-> None,
                             raised |-> r.raised, args |-> <<>>]
                  /\ close_calls' = close_calls + 1
       ELSE UNCHANGED <<exporters, calls, ret, close_calls>>
    /\ pc' = "exited"
    /\ UNCHANGED <<now, nextId, sinkVars, unitVars, PROMETHEUS_AVAILABLE,
                   INFLUXDB_AVAILABLE,
                   calcVars, METRICS_EXPORT_AVAILABLE, args, outcome,
                   metrics_exporter, start_time, current_net_io, speeds,
                   active_conns, alerts, tick_exports, failures>>

Teardown ==
    /\ pc = "returned"
    /\ IF metrics_exporter
       THEN \E oks \in [1..Len(exporters) -> BOOLEAN],
               coks \in [1..Len(exporters) -> BOOLEAN] :
              LET r == MetricsExporter_close(exporters, oks, now, 0, coks)
              IN  /\ exporters' = r.exporters
                  /\ calls' = r.calls
                  /\ ret' = [op |-> "close", value |-> None,
                             raised |-> r.raised, args |-> <<>>]
                  /\ close_calls' = close_calls + 1
       ELSE UNCHANGED <<exporters, calls, ret, close_calls>>
    /\ pc' = "exited"
    /\ UNCHANGED <<now, nextId, sinkVars, unitVars, PROMETHEUS_AVAILABLE,
                   INFLUXDB_AVAILABLE,
                   calcVars, METRICS_EXPORT_AVAILABLE, args, outcome,
                   metrics_exporter, start_time, current_net_io, speeds,
                   active_conns, alerts, tick_exports, failures>>

NextMonitor ==
    \/ Configure
    \/ Start
    \/ CheckDuration
    \/ ReadCounters
    \/ Calculate
    \/ LogTraffic
    \/ ExportStep
    \/ CheckThresholds
    \/ Sleep
    \/ Work
    \/ Interrupt
    \/ Teardown

SpecMonitor == InitMonitor /\ [][NextMonitor]_vars

----------------------------------------------------------------------------
(* Properties of the program, checked under SpecMonitor *)

\* C4: in every run that built a MetricsExporter, MetricsExporter.close() is
\* called exactly once by the time the program exits, however the loop ended,
\* and never while the loop is still running.
C4_TeardownOnce ==
    /\ close_calls <= 1
    /\ close_calls = 1 => pc = "exited" /\ metrics_exporter
    /\ (pc = "exited" /\ metrics_exporter) => close_calls = 1 /\ ret.op = "close"

\* C4 witness: the loop ended by an exception of the counter source, and the
\* exporter was closed once.
C4_Witness ==
    /\ pc = "exited"
    /\ metrics_exporter
    /\ outcome = "failed"
    /\ failures.step = "get_network_usage"
    /\ prev_net_io # NoSnapshot
    /\ exporters # <<>>
    /\ close_calls = 1

\* C5 as stated: in every tick of a run with a MetricsExporter, by the time
\* the thresholds are checked MetricsExporter.export_metrics has been called
\* exactly once, with the tick's rates.
C5_ExportEveryTick ==
    (pc = "thresholds" /\ metrics_exporter) =>
        /\ tick_exports = 1
        /\ ret.op = "export_metrics"
        /\ ret.args[1] = speeds

\* C6 as stated: the loop never ends in failure after a single exception; it
\* takes at least two failures (of the counter source, in a row).
C6_LoopResilient ==
    outcome = "failed" => failures.count >= 2

\* C7 as stated: a rate computed from two successive snapshots with
\* non-decreasing counters is the byte delta, in bits, divided by the time
\* that actually passed between the two reads times 1,000,000.
C7_RateUsesElapsed ==
    (pc = "log" /\ calc.called /\ ~calc.first) =>
        LET elapsed == calc.cur.takenAt - calc.prev.takenAt
        IN  elapsed > 0 =>
              /\ calc.cur.bytes_sent >= calc.prev.bytes_sent =>
                    speeds[1] = Frac((calc.cur.bytes_sent - calc.prev.bytes_sent) * 8,
                                     elapsed * 1000000)
              /\ calc.cur.bytes_recv >= calc.prev.bytes_recv =>
                    speeds[2] = Frac((calc.cur.bytes_recv - calc.prev.bytes_recv) * 8,
                                     elapsed * 1000000)

----------------------------------------------------------------------------
(* Properties of calculate_bandwidth, checked under SpecCalc *)

LaterCall == calc.called /\ ~calc.first

\* C8: the first calculate_bandwidth call after construction returns (0, 0)
\* for every snapshot, raises nothing, and stores the snapshot as the
\* previous one.
C8_FirstSampleZero ==
    calc.called /\ calc.first =>
        /\ calc.upload = Zero
        /\ calc.download = Zero
        /\ calc.error = None
        /\ prev_net_io = calc.cur

\* C8 witness: a first call with non-zero counters on a monitor whose
\* interval is 0.
C8_Witness ==
    /\ calc.called
    /\ calc.first
    /\ calc.cur.bytes_sent > 0
    /\ calc.cur.bytes_recv > 0
    /\ interval = 0
    /\ calc.upload = Zero

\* C9 as stated: with a positive interval, a direction whose counter is
\* smaller than the stored previous one reports 0, and no returned rate is
\* negative.
C9_WrapClamp ==
    LaterCall /\ interval > 0 /\ calc.error = None =>
        /\ calc.cur.bytes_sent < calc.prev.bytes_sent => calc.upload = Zero
        /\ calc.cur.bytes_recv < calc.prev.bytes_recv => calc.download = Zero
        /\ ~Less(calc.upload, Zero)
        /\ ~Less(calc.download, Zero)

\* C10 as stated: a later call made with a zero or negative interval fails
\* with InvalidInterval and returns no rate (so it neither divides by zero
\* nor returns a rate computed over a negative time).
C10_InvalidInterval ==
    LaterCall /\ interval <= 0 =>
        /\ calc.error = "InvalidInterval"
        /\ calc.upload = NoRate
        /\ calc.download = NoRate

----------------------------------------------------------------------------
(* SpecAlert: check_thresholds called tick after tick on one NetworkMonitor *)

MaxChecks == 2           \* check_thresholds calls in one behaviour

\* Rates in steps of half a Mbps, below, at and above the thresholds.
Rates == {Frac(n, 2) : n \in 0..5}
AlertThresholds == {[upload |-> 1, download |-> 2]}

InitAlert ==
    /\ now = 0
    /\ nextId = 1
    /\ SinkIdle
    /\ FanoutIdle
    /\ interval = 1
    /\ thresholds \in AlertThresholds
    /\ prev_net_io = NoSnapshot
    /\ calc = NoCalc
    /\ MonitorIdle
    /\ UnitIdle

\* One tick's check_thresholds(upload_speed, download_speed); trigger_alert
\* logs each alert.
CheckThresholdsCall ==
    /\ Len(alert_log) < MaxChecks
    /\ \E u \in Rates, d \in Rates :
          LET raised == check_thresholds(thresholds, u, d)
          IN  /\ speeds' = <<u, d>>
              /\ alerts' = raised
              /\ alert_log' = Append(alert_log,
                                     [sample |-> <<u, d>>, alerts |-> raised])
    /\ UNCHANGED <<now, nextId, sinkVars, fanoutVars, calcVars,
                   METRICS_EXPORT_AVAILABLE, args, pc, outcome,
                   metrics_exporter, start_time, current_net_io, active_conns,
                   tick_exports, close_calls, failures,
                   conn_call, prom, prom_call, http_servers>>

NextAlert == CheckThresholdsCall

SpecAlert == InitAlert /\ [][NextAlert]_vars

----------------------------------------------------------------------------
(* Properties of check_thresholds, checked under SpecAlert *)

\* rate > limit, for a rate n/d with d > 0 and an integer limit.
Over(rate, limit) == rate.n > limit * rate.d

\* The alerts of one direction among a call's alerts.
OfDirection(events, dir) == SelectSeq(events, LAMBDA a : a.direction = dir)

Limit(dir) == IF dir = "upload" THEN thresholds.upload ELSE thresholds.download
RateOf(sample, dir) == IF dir = "upload" THEN sample[1] ELSE sample[2]

\* C11: a direction alerts if and only if its rate is strictly greater than
\* its threshold; a rate equal to the threshold does not alert.
C11_StrictThreshold ==
    alert_log # <<>> =>
        \A dir \in {"upload", "download"} :
            /\ OfDirection(alerts, dir) # <<>> <=> Over(RateOf(speeds, dir), Limit(dir))
            /\ RateOf(speeds, dir) = FromInt(Limit(dir)) =>
                   OfDirection(alerts, dir) = <<>>

\* A call with the upload rate at its threshold (no alert) and the download
\* rate half a Mbps above its threshold (alert).
C11_Witness ==
    /\ alert_log # <<>>
    /\ speeds = <<FromInt(thresholds.upload), Frac(2 * thresholds.download + 1, 2)>>
    /\ OfDirection(alerts, "upload") = <<>>
    /\ OfDirection(alerts, "download") # <<>>

\* C12: the two directions are evaluated independently: each yields exactly
\* one alert, with its direction, the current value and the threshold, when
\* over its threshold and none otherwise, so a call yields 0, 1 or 2 alerts.
C12_IndependentDirections ==
    alert_log # <<>> =>
        /\ \A dir \in {"upload", "download"} :
              OfDirection(alerts, dir) =
                  IF Over(RateOf(speeds, dir), Limit(dir))
                  THEN <<[direction |-> dir,
                          current_value |-> RateOf(speeds, dir),
                          threshold |-> Limit(dir)]>>
                  ELSE <<>>
        /\ Len(alerts) = Len(OfDirection(alerts, "upload"))
                         + Len(OfDirection(alerts, "download"))
        /\ Len(alerts) \in 0..2

\* Both directions over their thresholds in one call: two alerts.
C12_Witness ==
    /\ alert_log # <<>>
    /\ Over(speeds[1], thresholds.upload)
    /\ Over(speeds[2], thresholds.download)
    /\ Len(alerts) = 2

\* C13: over a sequence of ticks, a direction alerts in every tick whose rate
\* exceeds the threshold, consecutive ones included, and the alerts of a tick
\* depend on that tick's sample and the thresholds only.
C13_LevelTriggered ==
    /\ \A i \in 1..Len(alert_log) : \A dir \in {"upload", "download"} :
          OfDirection(alert_log[i].alerts, dir) # <<>>
              <=> Over(RateOf(alert_log[i].sample, dir), Limit(dir))
    /\ \A i, j \in 1..Len(alert_log) :
          alert_log[i].sample = alert_log[j].sample
              => alert_log[i].alerts = alert_log[j].alerts

\* Two consecutive ticks over the upload threshold, both alerting.
C13_Witness ==
    \E i \in 1..Len(alert_log) - 1 :
        /\ Over(alert_log[i].sample[1], thresholds.upload)
        /\ Over(alert_log[i + 1].sample[1], thresholds.upload)
        /\ OfDirection(alert_log[i].alerts, "upload") # <<>>
        /\ OfDirection(alert_log[i + 1].alerts, "upload") # <<>>

----------------------------------------------------------------------------
(* SpecConns: get_active_connections on arbitrary socket tables *)

MaxSockets == 4          \* sockets psutil.net_connections returns
MaxLimit == 2            \* limit is drawn from 0..MaxLimit

\* The sockets of a table: two connections to one address on different
\* ports, one to another address, and a socket without a remote address.
SocketChoices == {Sock("10.0.0.1", 443), Sock("10.0.0.1", 80),
                  Sock("10.0.0.2", 443), Listening}

RECURSIVE SocketTables(_)
SocketTables(n) ==
    IF n = 0
    THEN {<<>>}
    ELSE LET shorter == SocketTables(n - 1)
         IN  shorter \cup {Append(t, c) : t \in {x \in shorter : Len(x) = n - 1},
                                          c \in SocketChoices}

InitConns ==
    /\ now = 0
    /\ nextId = 1
    /\ SinkIdle
    /\ FanoutIdle
    /\ CalcIdle
    /\ MonitorIdle
    /\ UnitIdle

\* One call get_active_connections(limit) over the table psutil returns.
GetActiveConnections ==
    /\ ~conn_call.called
    /\ \E conns \in SocketTables(MaxSockets), resolved \in SUBSET IPs,
          limit \in 0..MaxLimit :
          LET result == get_active_connections(conns, resolved, limit)
          IN  /\ active_conns' = result
              /\ conn_call' = [called |-> TRUE, conns |-> conns,
                               resolved |-> resolved, limit |-> limit,
                               result |-> result]
    /\ UNCHANGED <<now, nextId, sinkVars, fanoutVars, calcVars,
                   METRICS_EXPORT_AVAILABLE, args, pc, outcome,
                   metrics_exporter, start_time, current_net_io, speeds,
                   alerts, tick_exports, close_calls, failures,
                   alert_log, prom, prom_call, http_servers>>

NextConns == GetActiveConnections

SpecConns == InitConns /\ [][NextConns]_vars

----------------------------------------------------------------------------
(* Properties of get_active_connections, checked under SpecConns *)

\* The sockets of the table that have a remote address, in table order.
RemoteSockets == SelectSeq(conn_call.conns, LAMBDA c : c.raddr # <<>>)

\* C14: the result is the first min(limit, k) of the k sockets with a remote
\* address, in table order, neither sorted nor deduplicated; it has at most
\* limit entries and every entry has a remote IP.
C14_SnapshotPrefix ==
    conn_call.called =>
        LET k == Len(RemoteSockets)
            m == IF conn_call.limit < k THEN conn_call.limit ELSE k
        IN  /\ Len(conn_call.result) = m
            /\ Len(conn_call.result) <= conn_call.limit
            /\ \A i \in 1..Len(conn_call.result) :
                  /\ conn_call.result[i].remote_ip = RemoteSockets[i].raddr[1]
                  /\ conn_call.result[i].remote_port = RemoteSockets[i].raddr[2]
                  /\ conn_call.result[i].remote_ip # ""

\* More remote sockets than the limit, behind a socket without a remote
\* address; the result keeps two connections to one IP, ports unsorted.
C14_Witness ==
    /\ conn_call.called
    /\ Len(RemoteSockets) > conn_call.limit
    /\ conn_call.conns[1].raddr = <<>>
    /\ Len(conn_call.result) = 2
    /\ conn_call.result[1].remote_ip = conn_call.result[2].remote_ip
    /\ conn_call.result[1].remote_port > conn_call.result[2].remote_port

----------------------------------------------------------------------------
(* More properties of InfluxDBExporter, checked under SpecInflux *)

\* The points an export_metrics call appended before its flush check.
Grown ==
    (IF call.write = "none" THEN Len(influx.points_buffer) ELSE Len(call.batch))
        - Len(call.pre.points_buffer)

\* C15: an export appends one bandwidth point and one point per connection
\* of the snapshot: the buffer grows by 1 + (number of connections) before
\* the flush check.
C15_PointsPerExport ==
    call.op = "export_metrics" => Grown = 1 + Len(call.connections)

\* C16: close flushes exactly once, whatever the count and time triggers say
\* (one write of the whole buffer when it is non-empty, none when it is
\* empty), and then calls client.close(): after the flush, never before, and
\* also when the write failed.  The client is closed when client.close()
\* returns.
C16_CloseFlushesThenReleases ==
    call.op = "close" =>
        /\ call.flushed
        /\ call.write # "none" <=> call.pre.points_buffer # <<>>
        /\ call.write # "none" => call.batch = call.pre.points_buffer
        /\ call.order = <<"flush", "client.close">>
        /\ ~call.raised => ~influx.client_open

\* A close whose write failed, with neither trigger met, and the client
\* closed all the same.
C16_Witness ==
    /\ call.op = "close"
    /\ call.write = "fail"
    /\ Len(call.pre.points_buffer) < call.pre.batch_size
    /\ call.at - call.pre.last_flush_time < call.pre.flush_interval
    /\ ~influx.client_open

----------------------------------------------------------------------------
(* SpecProm: one PrometheusExporter under arbitrary calls *)

\* The samples exported, with the connection snapshot the caller holds (for
\* which export_metrics has no parameter).
PromSamples == {<<0, 0>>, <<1, 2>>, <<2, 1>>}

MaxPromCalls == 4        \* calls on the exporter in one behaviour

InitProm ==
    /\ now = 0
    /\ nextId = 1
    /\ SinkIdle
    /\ FanoutIdle
    /\ CalcIdle
    /\ MonitorIdle
    /\ alert_log = <<>>
    /\ conn_call = NoConnCall
    /\ \E port \in Ports :
          /\ prom = PrometheusExporter_init(port)
          /\ prom_call = [NoPromCall EXCEPT !.pre = PrometheusExporter_init(port)]
    /\ http_servers = 0

PromReturn(op, sample, conns, r) ==
    /\ prom' = r.sink
    /\ prom_call' = [op |-> op, pre |-> prom, sample |-> sample,
                     connections |-> conns, raised |-> r.raised,
                     started |-> r.started, n |-> prom_call.n + 1]
    /\ http_servers' = http_servers + (IF r.started THEN 1 ELSE 0)

\* start_server(); the bind succeeds or fails (e.g. the port is taken).
PromStartServer ==
    /\ prom_call.n < MaxPromCalls
    /\ \E bindOk \in BOOLEAN :
          PromReturn("start_server", prom_call.sample, <<>>,
                     PrometheusExporter_start_server(prom, bindOk))
    /\ UNCHANGED <<now, nextId, sinkVars, fanoutVars, calcVars, monVars,
                   alert_log, conn_call>>

\* export_metrics(upload_speed, download_speed).
PromExport ==
    /\ prom_call.n < MaxPromCalls
    /\ \E sample \in PromSamples, conns \in ConnSnapshots, bindOk \in BOOLEAN :
          PromReturn("export_metrics", sample, conns,
                     PrometheusExporter_export_metrics(prom, sample, bindOk))
    /\ UNCHANGED <<now, nextId, sinkVars, fanoutVars, calcVars, monVars,
                   alert_log, conn_call>>

NextProm == PromStartServer \/ PromExport

SpecProm == InitProm /\ [][NextProm]_vars

----------------------------------------------------------------------------
(* Properties of PrometheusExporter, checked under SpecProm *)

Elements(seq) == {seq[i] : i \in 1..Len(seq)}

\* The exposed series that carry labels: per-connection indicators.
ConnectionIndicators == {x \in PrometheusExporter_series(prom) : x.labels # <<>>}

\* C17: after an export, the exposed per-connection indicators are exactly
\* the connections of that call, and an active-connection-count gauge equals
\* their number.
C17_FullClear ==
    (prom_call.op = "export_metrics" /\ ~prom_call.raised) =>
        /\ {x.labels : x \in ConnectionIndicators} = Elements(prom_call.connections)
        /\ \E x \in PrometheusExporter_series(prom) :
              /\ x.name \notin {"network_upload_mbps", "network_download_mbps"}
              /\ x.labels = <<>>
              /\ x.value = Len(prom_call.connections)

\* C18: the HTTP server is not started at construction; a call of
\* export_metrics or start_server on an exporter whose server is not started
\* starts it (or raises); once it is started, every later call starts
\* nothing and start_server raises nothing, so it is started exactly once.
C18_LazyIdempotentStart ==
    /\ prom_call.op = "init" => ~prom.server_started /\ http_servers = 0
    /\ http_servers <= 1
    /\ prom.server_started <=> http_servers = 1
    /\ prom_call.op # "init" =>
          IF prom_call.pre.server_started
          THEN ~prom_call.started /\ ~prom_call.raised
          ELSE prom_call.started <=> ~prom_call.raised

\* start_server called on an exporter whose server an export had started.
C18_Witness ==
    /\ prom_call.op = "start_server"
    /\ prom_call.pre.server_started
    /\ prom_call.pre.upload_gauge # 0
    /\ http_servers = 1

\* C19: export_metrics always returns normally and leaves the two gauges at
\* the sample passed, also when the endpoint cannot be bound.
C19_ExportNeverFails ==
    prom_call.op = "export_metrics" =>
        /\ ~prom_call.raised
        /\ prom.upload_gauge = prom_call.sample[1]
        /\ prom.download_gauge = prom_call.sample[2]

----------------------------------------------------------------------------
(* More properties of MetricsExporter, checked under SpecFanout *)

\* The positions of the registered exporters that have a close method (the
\* InfluxDBExporter objects), in registration order.
RECURSIVE Closeable(_)
Closeable(n) ==
    IF n = 0
    THEN <<>>
    ELSE Closeable(n - 1)
             \o (IF exporters[n].kind = "influx" THEN <<n>> ELSE <<>>)

\* C20: close calls close once on every registered exporter that has one, in
\* registration order, also after the close of an earlier exporter raised,
\* and nothing propagates out of MetricsExporter.close.
C20_BestEffortClose ==
    ret.op = "close" =>
        LET idx == Closeable(Len(exporters))
        IN  /\ ~ret.raised
            /\ Len(calls) = Len(idx)
            /\ \A k \in 1..Len(calls) :
                  /\ calls[k].sink = idx[k]
                  /\ calls[k].method = "close"

\* The close of the first exporter raised and the second one was closed.
C20_Witness ==
    /\ ret.op = "close"
    /\ Len(calls) = 2
    /\ calls[1].raised
    /\ ~calls[2].raised
    /\ ~exporters[2].client_open

\* C21: add_prometheus_exporter and add_influxdb_exporter never raise; they
\* return True having appended exactly one exporter of their kind at the end
\* of self.exporters, or return False leaving self.exporters unchanged, which
\* is what they do when the library is missing (and when the constructor
\* raises).
C21_SoftRegistration ==
    [][ret'.op \in {"add_prometheus_exporter", "add_influxdb_exporter"} =>
          /\ ~ret'.raised
          /\ ret'.value \in BOOLEAN
          /\ ret'.value =>
                /\ Len(exporters') = Len(exporters) + 1
                /\ SubSeq(exporters', 1, Len(exporters)) = exporters
                /\ exporters'[Len(exporters')].kind =
                       (IF ret'.op = "add_prometheus_exporter"
                        THEN "prom" ELSE "influx")
          /\ ~ret'.value => exporters' = exporters
          /\ (ret'.op = "add_prometheus_exporter" /\ ~PROMETHEUS_AVAILABLE)
                => ~ret'.value
          /\ (ret'.op = "add_influxdb_exporter" /\ ~INFLUXDB_AVAILABLE)
                => ~ret'.value]_vars

\* A registration failed after another one had succeeded: the exporter
\* registered first is still the only one in the list.
C21_Witness ==
    /\ ret.op = "add_prometheus_exporter"
    /\ ret.value = FALSE
    /\ Len(exporters) = 1
    /\ exporters[1].kind = "influx"

----------------------------------------------------------------------------
(* More properties of the program, checked under SpecMonitor *)

\* C22 as stated: with a duration configured, no tick is started once the
\* time since start has reached the duration (a duration of 0 included): a
\* tick that got past the duration check started before that time.
C22_DurationStop ==
    (pc = "read" /\ args.duration # <<>>) =>
        (now - start_time) < args.duration[1]

\* C23: once a KeyboardInterrupt is delivered the loop has ended as
\* interrupted: no tick is started and nothing is read, exported or checked
\* any more, and the program goes to its teardown and exits, closing the
\* MetricsExporter it built.  self.prev_net_io changes only in
\* calculate_bandwidth, in one assignment of the snapshot just read, so at
\* the interrupt it is the snapshot of before the tick or the current one.
C23_Cancellation ==
    /\ [](outcome = "interrupted" =>
            /\ pc \in {"returned", "exited"}
            /\ (pc = "exited" /\ metrics_exporter) => close_calls = 1)
    /\ [][/\ (outcome # "interrupted" /\ outcome' = "interrupted") =>
                /\ pc' = "returned"
                /\ prev_net_io' = prev_net_io
                /\ calc.called => prev_net_io = current_net_io
          /\ outcome = "interrupted" =>
                /\ outcome' = "interrupted"
                /\ pc' = "exited"
                /\ UNCHANGED <<prev_net_io, current_net_io, alerts,
                               tick_exports, now>>
          /\ prev_net_io' # prev_net_io =>
                /\ pc = "calc"
                /\ prev_net_io' = current_net_io]_vars

\* An interrupt delivered after the calculator had stored a snapshot; the
\* program exited and closed its exporters.
C23_Witness ==
    /\ outcome = "interrupted"
    /\ pc = "exited"
    /\ prev_net_io # NoSnapshot
    /\ exporters # <<>>
    /\ close_calls = 1

----------------------------------------------------------------------------
(* More properties of calculate_bandwidth, checked under SpecCalc *)

\* C24: after every calculate_bandwidth call that returns, self.prev_net_io
\* is the snapshot passed, on the first call, on later calls and when a
\* counter went backwards alike; so a call computes its rates against the
\* snapshot of the call that returned just before it.
C24_PrevAlwaysReplaced ==
    /\ []((calc.called /\ calc.error = None) => prev_net_io = calc.cur)
    /\ [][(calc' # calc /\ calc.called /\ calc.error = None)
              => calc'.prev = calc.cur]_vars

\* A later call whose upload counter went backwards stored its snapshot.
C24_Witness ==
    /\ LaterCall
    /\ calc.error = None
    /\ calc.cur.bytes_sent < calc.prev.bytes_sent
    /\ prev_net_io = calc.cur

----------------------------------------------------------------------------
(* Properties of the export step of a tick, checked under SpecMonitor *)

\* C25: an exception raised in the export step of a tick is caught and
\* logged there: the step never ends the loop as failed, check_thresholds
\* still runs in that tick, on that tick's rates, and the loop goes on to
\* its sleep and the next tick.
C25_AlertingSurvivesExport ==
    /\ [](failures.caught =>
            /\ outcome # "failed"
            /\ outcome = None => pc \in {"thresholds", "sleep", "check"}
            /\ pc = "sleep" =>
                  \A dir \in {"upload", "download"} :
                      OfDirection(alerts, dir) # <<>>
                          <=> Over(RateOf(speeds, dir), Limit(dir)))
    /\ [][/\ pc = "export" =>
                /\ outcome' # "failed"
                /\ pc' = "thresholds" \/ outcome' = "interrupted"
          /\ (failures.caught /\ pc = "thresholds") =>
                pc' = "sleep" \/ outcome' = "interrupted"
          /\ (failures.caught /\ pc = "sleep" /\ interval >= 0) =>
                pc' = "check" \/ outcome' = "interrupted"]_vars

\* The interface lookup raised in a tick whose rates are over the
\* thresholds; the alerts of the tick were raised all the same.
C25_Witness ==
    /\ pc = "sleep"
    /\ failures.caught
    /\ failures.step = "net_if_addrs"
    /\ alerts # <<>>

----------------------------------------------------------------------------
(* Delivery and frame properties of InfluxDBExporter, checked under
   SpecInflux *)

RECURSIVE Flatten(_)
Flatten(batches) ==
    IF batches = <<>> THEN <<>> ELSE Head(batches) \o Flatten(Tail(batches))

\* The identities of the points of a sequence, in order.
Ids(points) == [i \in 1..Len(points) |-> points[i].id]

\* C26: before close, the points of the accepted writes, in the order of the
\* writes, followed by the points in the buffer are exactly the points
\* appended so far, each once and in the order of their appending: no point
\* is lost, none is in two accepted writes, none is both written and
\* buffered.
C26_AtMostOnceNoLoss ==
    influx.client_open =>
        Ids(Flatten(written) \o influx.points_buffer)
            = [i \in 1..(nextId - 1) |-> i]

\* An accepted write of points that an earlier, refused write had left in
\* the buffer, after another accepted write.
C26_Witness ==
    /\ influx.client_open
    /\ call.op = "export_metrics"
    /\ call.write = "ok"
    /\ Len(call.pre.points_buffer) >= call.pre.batch_size
    /\ Len(written) = 2

\* The flush condition of export_metrics held on the fields before the call.
TriggerMetBefore ==
    \/ Len(call.pre.points_buffer) >= call.pre.batch_size
    \/ (call.at - call.pre.last_flush_time) >= call.pre.flush_interval

\* C27: a flush of an empty buffer writes nothing and leaves the buffer and
\* last_flush_time as they were; a failed write leaves last_flush_time as it
\* was; last_flush_time changes only in a call whose write of a non-empty
\* buffer was accepted; so an export_metrics call made when a trigger is
\* already met attempts a write of the whole buffer.
C27_FlushFrame ==
    call.op # "init" =>
        /\ (call.op \in {"flush", "close"} /\ call.pre.points_buffer = <<>>) =>
              /\ call.write = "none"
              /\ influx.points_buffer = <<>>
              /\ influx.last_flush_time = call.pre.last_flush_time
        /\ call.write = "fail" =>
              /\ influx.last_flush_time = call.pre.last_flush_time
              /\ influx.points_buffer = call.batch
        /\ influx.last_flush_time # call.pre.last_flush_time =>
              /\ call.write = "ok"
              /\ call.batch # <<>>
        /\ (call.op = "export_metrics" /\ TriggerMetBefore) =>
              /\ call.write # "none"
              /\ Len(call.batch) = Len(call.pre.points_buffer) + 1

\* During an outage: an export made on a buffer already at batch_size (an
\* earlier write of it was refused) retried the write of the whole buffer,
\* was refused too and left the timer alone, later than the last flush.
C27_Witness ==
    /\ call.op = "export_metrics"
    /\ call.write = "fail"
    /\ Len(call.pre.points_buffer) >= call.pre.batch_size
    /\ Len(call.batch) = Len(call.pre.points_buffer) + 1
    /\ now > influx.last_flush_time

====
